---- MODULE Spec2Model ----
(***************************************************************************)
(* njalla: a JSON-RPC client library (NjallaClient) and its command-line   *)
(* front end.  The model follows one process: main() builds the client     *)
(* from the environment, dispatches one subcommand, and each               *)
(* NjallaClient::call sends one request and resolves the response.         *)
(***************************************************************************)
EXTENDS Integers, Sequences, FiniteSets, TLC

\* ---------------------------------------------------------------- Option

\* Option<T>: None is the empty tuple, Some(x) the one-element tuple.
None == <<>>

Some(x) == <<x>>

\* ------------------------------------------------------ serde_json::Value

JNull == [k |-> "null"]

JS(s) == [k |-> "str", s |-> s]

JN(n) == [k |-> "num", n |-> n]

JB(b) == [k |-> "bool", b |-> b]

JA(items) == [k |-> "arr", items |-> items]

\* An object is its list of <<key, value>> members.
JO(members) == [k |-> "obj", members |-> members]

\* The member of object o under key, as an Option.
Get(o, key) ==
    LET hits == {i \in 1..Len(o.members) : o.members[i][1] = key}
    IN  IF hits = {} THEN None
        ELSE Some(o.members[CHOOSE i \in hits : \A j \in hits : i <= j][2])

\* params["domain"] = json!(domain): insert, or replace the existing member.
SetMember(o, key, v) ==
    IF Get(o, key) = None
    THEN JO(Append(o.members, <<key, v>>))
    ELSE JO([i \in 1..Len(o.members) |->
                IF o.members[i][1] = key THEN <<key, v>> ELSE o.members[i]])

\* ------------------------------------------------- the Deserialize types

\* One field of a derived struct: its JSON key (serde rename), its Rust
\* name, its type, and whether the type is an Option.
F(key, name, ty, opt) == [key |-> key, name |-> name, ty |-> ty, opt |-> opt]

VecTypes == {"Vec<String>", "Vec<Record>", "Vec<Domain>", "Vec<MarketDomain>",
             "Vec<Server>"}

StructTypes == {"JsonRpcResponse", "JsonRpcError", "Record", "RecordsResponse",
                "Domain", "MarketDomain", "DomainsResponse",
                "MarketDomainsResponse", "TaskResponse", "TaskStatus",
                "Server", "ServersResponse", "ImagesResponse", "TypesResponse"}

VecElem(ty) ==
    CASE ty = "Vec<String>" -> "String"
      [] ty = "Vec<Record>" -> "Record"
      [] ty = "Vec<Domain>" -> "Domain"
      [] ty = "Vec<MarketDomain>" -> "MarketDomain"
      [] ty = "Vec<Server>" -> "Server"

Schema(ty) ==
    CASE ty = "JsonRpcResponse" ->
            << F("result", "result", "Value", TRUE),
               F("error", "error", "JsonRpcError", TRUE) >>
      [] ty = "JsonRpcError" ->
            << F("code", "code", "i64", FALSE),
               F("message", "message", "String", FALSE) >>
      [] ty = "Record" ->
            << F("id", "id", "String", TRUE),
               F("name", "name", "String", FALSE),
               F("type", "record_type", "String", FALSE),
               F("content", "content", "String", FALSE),
               F("ttl", "ttl", "u32", FALSE),
               F("prio", "priority", "u32", TRUE) >>
      [] ty = "RecordsResponse" ->
            << F("records", "records", "Vec<Record>", FALSE) >>
      [] ty = "Domain" ->
            << F("name", "name", "String", FALSE),
               F("status", "status", "String", FALSE),
               F("expiry", "expiry", "String", FALSE),
               F("locked", "locked", "bool", TRUE),
               F("mailforwarding", "mailforwarding", "bool", TRUE),
               F("max_nameservers", "max_nameservers", "i64", TRUE) >>
      [] ty = "MarketDomain" ->
            << F("name", "name", "String", FALSE),
               F("status", "status", "String", FALSE),
               F("price", "price", "i64", FALSE) >>
      [] ty = "DomainsResponse" ->
            << F("domains", "domains", "Vec<Domain>", FALSE) >>
      [] ty = "MarketDomainsResponse" ->
            << F("domains", "domains", "Vec<MarketDomain>", FALSE) >>
      [] ty = "TaskResponse" ->
            << F("task", "task", "String", FALSE) >>
      [] ty = "TaskStatus" ->
            << F("status", "status", "String", FALSE) >>
      [] ty = "Server" ->
            << F("name", "name", "String", FALSE),
               F("type", "server_type", "String", FALSE),
               F("id", "id", "String", FALSE),
               F("status", "status", "String", FALSE),
               F("os", "os", "String", FALSE),
               F("expiry", "expiry", "String", FALSE),
               F("autorenew", "autorenew", "bool", FALSE),
               F("ssh_key", "ssh_key", "String", FALSE),
               F("ips", "ips", "Vec<String>", FALSE),
               F("reverse_name", "reverse_name", "String", FALSE),
               F("os_state", "os_state", "String", FALSE) >>
      [] ty = "ServersResponse" ->
            << F("servers", "servers", "Vec<Server>", FALSE) >>
      [] ty = "ImagesResponse" ->
            << F("images", "images", "Vec<String>", FALSE) >>
      [] ty = "TypesResponse" ->
            << F("types", "types", "Vec<String>", FALSE) >>

\* Whether JSON value v deserializes into type ty (serde's derived
\* Deserialize: a struct wants an object holding every non-Option field
\* with a value of its type; an Option field may be missing or null;
\* unknown members are ignored).  u32 and i64 are the integers TLC can
\* hold, u32 the non-negative ones.
RECURSIVE Accepts(_, _)
Accepts(ty, v) ==
    CASE ty = "Value" -> TRUE
      [] ty = "String" -> v.k = "str"
      [] ty = "u32" -> v.k = "num" /\ v.n >= 0
      [] ty = "i64" -> v.k = "num"
      [] ty = "bool" -> v.k = "bool"
      [] ty \in VecTypes ->
            /\ v.k = "arr"
            /\ \A i \in 1..Len(v.items) : Accepts(VecElem(ty), v.items[i])
      [] ty \in StructTypes ->
            /\ v.k = "obj"
            /\ \A i \in 1..Len(Schema(ty)) :
                  LET f == Schema(ty)[i]
                      x == Get(v, f.key)
                  IN  IF x = None THEN f.opt
                      ELSE \/ f.opt /\ x[1].k = "null"
                           \/ Accepts(f.ty, x[1])

\* The value of type ty that v deserializes into, for v with Accepts(ty, v).
RECURSIVE Dec(_, _)
Dec(ty, v) ==
    CASE ty = "Value" -> v
      [] ty = "String" -> v.s
      [] ty \in {"u32", "i64"} -> v.n
      [] ty = "bool" -> v.b
      [] ty \in VecTypes ->
            [i \in 1..Len(v.items) |-> Dec(VecElem(ty), v.items[i])]
      [] ty \in StructTypes ->
            LET sch == Schema(ty)
                names == {sch[i].name : i \in 1..Len(sch)}
                field(n) == sch[CHOOSE i \in 1..Len(sch) : sch[i].name = n]
            IN  [n \in names |->
                    LET f == field(n)
                        x == Get(v, f.key)
                    IN  IF f.opt
                        THEN IF x = None \/ x[1].k = "null" THEN None
                             ELSE Some(Dec(f.ty, x[1]))
                        ELSE Dec(f.ty, x[1])]

\* ------------------------------------------------------------ error.rs

\* Error::Http wraps every reqwest::Error; cause keeps what reqwest reports
\* (is_builder/is_connect/is_timeout, is_status, is_decode).
HttpError(cause) == [kind |-> "Http", cause |-> cause]

JsonError == [kind |-> "Json"]

ApiError(code, message) == [kind |-> "Api", code |-> code, message |-> message]

MissingResult == [kind |-> "MissingResult"]

EnvError == [kind |-> "Env"]

NotFound(id, domain) == [kind |-> "NotFound", id |-> id, domain |-> domain]

\* impl From<JsonRpcError> for Error
FromJsonRpcError(e) == ApiError(e.code, e.message)

\* Result<T>
Ok(v) == [ok |-> TRUE, val |-> v]

Err(e) == [ok |-> FALSE, err |-> e]

Unit == [k |-> "unit"]

\* ----------------------------------------------------------- client.rs

ENDPOINT == "https://njal.la/api/1/"

RpcId == 1

\* NjallaClient::new: auth = format!("Njalla {}", token)
AuthOf(token) == "Njalla " \o token

\* JsonRpcRequest serialized by .json(&body)
JsonRpcRequest(method, params) ==
    JO(<< <<"jsonrpc", JS("2.0")>>, <<"id", JN(RpcId)>>,
          <<"method", JS(method)>>, <<"params", params>> >>)

\* The request .post(ENDPOINT).header("Authorization", &self.auth).json(&body)
HttpRequest(auth, method, params) ==
    [verb |-> "POST", url |-> ENDPOINT, authorization |-> auth,
     body |-> JsonRpcRequest(method, params)]

\* A mutant of SendRequest: the request is sent twice.
SendRequest_Twice(reqs, r) == Append(Append(reqs, r), r)

\* .send(): the one request of a call goes out.
SendRequest(reqs, r) == Append(reqs, r)

\* Response::error_for_status: a 4xx or 5xx status is an error.
IsErrorStatus(status) == status \in 400..599

\* serde_json::from_value::<T>(v)
FromValue(T, v) == IF Accepts(T, v) THEN Ok(Dec(T, v)) ELSE Err(JsonError)

\* A mutant of ResolveEnvelope: result is looked at before error.
ResolveEnvelope_ResultFirst(env, T) ==
    IF env.result # None THEN FromValue(T, env.result[1])
    ELSE IF env.error # None THEN Err(FromJsonRpcError(env.error[1]))
    ELSE Err(MissingResult)

\* A mutant of ResolveEnvelope: a missing result decodes as null.
ResolveEnvelope_NullResult(env, T) ==
    IF env.error # None THEN Err(FromJsonRpcError(env.error[1]))
    ELSE IF env.result = None THEN FromValue(T, JNull)
    ELSE FromValue(T, env.result[1])

\* A mutant of ResolveEnvelope: a result of the wrong shape is reported
\* as a missing result.
ResolveEnvelope_ShapeAsMissing(env, T) ==
    IF env.error # None THEN Err(FromJsonRpcError(env.error[1]))
    ELSE IF env.result = None \/ ~Accepts(T, env.result[1])
         THEN Err(MissingResult)
    ELSE FromValue(T, env.result[1])

\* call, after the envelope is parsed: error first, then the result.
ResolveEnvelope(env, T) ==
    IF env.error # None THEN Err(FromJsonRpcError(env.error[1]))
    ELSE IF env.result = None THEN Err(MissingResult)
    ELSE FromValue(T, env.result[1])

\* Response::json::<JsonRpcResponse>(): the body, when it is JSON of the
\* envelope's shape.  Its failure is a reqwest::Error.
ParseBody(body) ==
    IF body # None /\ Accepts("JsonRpcResponse", body[1])
    THEN Ok(Dec("JsonRpcResponse", body[1]))
    ELSE Err(HttpError("decode"))

\* A mutant of Resolve: the body is parsed before the status is looked at.
Resolve_BodyFirst(out, T) ==
    IF out.transport # "ok" THEN Err(HttpError("send"))
    ELSE LET parsed == ParseBody(out.body)
         IN  IF parsed.ok THEN ResolveEnvelope(parsed.val, T)
             ELSE IF IsErrorStatus(out.status) THEN Err(HttpError("status"))
             ELSE parsed

\* What call returns for the outcome of its request: send()?, then
\* error_for_status()?, then json()?, then the envelope.
Resolve(out, T) ==
    IF out.transport # "ok" THEN Err(HttpError("send"))
    ELSE IF IsErrorStatus(out.status) THEN Err(HttpError("status"))
    ELSE LET parsed == ParseBody(out.body)
         IN  IF parsed.ok THEN ResolveEnvelope(parsed.val, T) ELSE parsed

\* A mutant of ResolveVoid: the result being thrown away, a missing one
\* is not an error.
ResolveVoid_MissingIsOk(out) ==
    LET r == Resolve(out, "Value")
    IN  IF r.ok \/ r.err = MissingResult THEN Ok(Unit) ELSE r

\* call_void: let _: Value = self.call(method, params).await?; Ok(())
ResolveVoid(out) ==
    LET r == Resolve(out, "Value") IN IF r.ok THEN Ok(Unit) ELSE r

\* ----------------------------------------------------------- record.rs

\* serde_json::to_value(&Record): id and prio are skipped when None.
ToValueRecord(r) ==
    JO((IF r.id = None THEN <<>> ELSE << <<"id", JS(r.id[1])>> >>)
       \o << <<"name", JS(r.name)>>, <<"type", JS(r.record_type)>>,
             <<"content", JS(r.content)>>, <<"ttl", JN(r.ttl)>> >>
       \o (IF r.priority = None THEN <<>>
           ELSE << <<"prio", JN(r.priority[1])>> >>))

\* serde_json::to_value(&NewRecord): a Record without the id.
ToValueNewRecord(r) ==
    JO(<< <<"name", JS(r.name)>>, <<"type", JS(r.record_type)>>,
          <<"content", JS(r.content)>>, <<"ttl", JN(r.ttl)>> >>
       \o (IF r.priority = None THEN <<>>
           ELSE << <<"prio", JN(r.priority[1])>> >>))

\* serde_json::to_value(&NewServer)
ToValueNewServer(a) ==
    JO(<< <<"name", JS(a.name)>>, <<"type", JS(a.server_type)>>,
          <<"os", JS(a.os)>>, <<"ssh_key", JS(a.ssh_key)>>,
          <<"months", JN(a.months)>> >>)

\* One use of call: the method, its params, the expected type T, and
\* whether it goes through call_void.
Rpc(method, params, T, void) ==
    [method |-> method, params |-> params, T |-> T, void |-> void]

\* NjallaClient::list_records
ListRecords(domain) ==
    Rpc("list-records", JO(<< <<"domain", JS(domain)>> >>),
        "RecordsResponse", FALSE)

\* A mutant of EditRecord: the record is sent without the domain merged in.
EditRecord_NoDomain(domain, record) ==
    Rpc("edit-record", ToValueRecord(record), "Value", TRUE)

\* NjallaClient::edit_record
EditRecord(domain, record) ==
    Rpc("edit-record", SetMember(ToValueRecord(record), "domain", JS(domain)),
        "Value", TRUE)

\* The first call a subcommand makes (run_domain, run_record, run_server
\* and the method each names in domain.rs, record.rs, server.rs).
FirstRpc(c) ==
    CASE c.op = "domain-list" ->
            Rpc("list-domains", JO(<<>>), "DomainsResponse", FALSE)
      [] c.op = "domain-get" ->
            Rpc("get-domain", JO(<< <<"domain", JS(c.domain)>> >>),
                "Domain", FALSE)
      [] c.op = "domain-find" ->
            Rpc("find-domains", JO(<< <<"query", JS(c.query)>> >>),
                "MarketDomainsResponse", FALSE)
      [] c.op = "domain-register" ->
            Rpc("register-domain",
                JO(<< <<"domain", JS(c.domain)>>, <<"years", JN(c.years)>> >>),
                "TaskResponse", FALSE)
      [] c.op = "domain-check-task" ->
            Rpc("check-task", JO(<< <<"id", JS(c.id)>> >>), "TaskStatus", FALSE)
      [] c.op = "record-list" -> ListRecords(c.domain)
      [] c.op = "record-add" ->
            Rpc("add-record",
                SetMember(ToValueNewRecord(c), "domain", JS(c.domain)),
                "Record", FALSE)
      [] c.op = "record-edit" -> ListRecords(c.domain)
      [] c.op = "record-remove" ->
            Rpc("remove-record",
                JO(<< <<"domain", JS(c.domain)>>, <<"id", JS(c.id)>> >>),
                "Value", TRUE)
      [] c.op = "server-list" ->
            Rpc("list-servers", JO(<<>>), "ServersResponse", FALSE)
      [] c.op = "server-images" ->
            Rpc("list-server-images", JO(<<>>), "ImagesResponse", FALSE)
      [] c.op = "server-types" ->
            Rpc("list-server-types", JO(<<>>), "TypesResponse", FALSE)
      [] c.op = "server-add" ->
            Rpc("add-server", ToValueNewServer(c), "Server", FALSE)
      [] c.op = "server-stop" ->
            Rpc("stop-server", JO(<< <<"id", JS(c.id)>> >>), "Server", FALSE)
      [] c.op = "server-start" ->
            Rpc("start-server", JO(<< <<"id", JS(c.id)>> >>), "Server", FALSE)
      [] c.op = "server-restart" ->
            Rpc("restart-server", JO(<< <<"id", JS(c.id)>> >>), "Server", FALSE)
      [] c.op = "server-reset" ->
            Rpc("reset-server",
                JO(<< <<"id", JS(c.id)>>, <<"os", JS(c.os)>>,
                      <<"ssh_key", JS(c.ssh_key)>>,
                      <<"type", JS(c.server_type)>> >>),
                "Server", FALSE)
      [] c.op = "server-remove" ->
            Rpc("remove-server", JO(<< <<"id", JS(c.id)>> >>), "Server", FALSE)

\* ------------------------------------------------------------- main.rs

\* A mutant of FindRecord: the first record of the list, whatever its id.
FindRecord_First(records, id) ==
    IF Len(records) = 0 THEN None ELSE Some(records[1])

\* records.iter().find(|r| r.id.as_deref() == Some(&id))
FindRecord(records, id) ==
    LET hits == {i \in 1..Len(records) : records[i].id = Some(id)}
    IN  IF hits = {} THEN None
        ELSE Some(records[CHOOSE i \in hits : \A j \in hits : i <= j])

\* A mutant of Patched: the existing priority wins over the caller's.
Patched_PriorityExistingFirst(c, existing) ==
    [id |-> Some(c.id),
     name |-> IF c.name # None THEN c.name[1] ELSE existing.name,
     record_type |-> IF c.record_type # None THEN c.record_type[1]
                     ELSE existing.record_type,
     content |-> IF c.content # None THEN c.content[1] ELSE existing.content,
     ttl |-> IF c.ttl # None THEN c.ttl[1] ELSE existing.ttl,
     priority |-> IF existing.priority # None THEN existing.priority
                  ELSE c.priority]

\* run_record, RecordCmd::Edit: the record sent, built from the flags
\* given and the record found.
Patched(c, existing) ==
    [id |-> Some(c.id),
     name |-> IF c.name # None THEN c.name[1] ELSE existing.name,
     record_type |-> IF c.record_type # None THEN c.record_type[1]
                     ELSE existing.record_type,
     content |-> IF c.content # None THEN c.content[1] ELSE existing.content,
     ttl |-> IF c.ttl # None THEN c.ttl[1] ELSE existing.ttl,
     priority |-> IF c.priority # None THEN c.priority ELSE existing.priority]

\* What a subcommand prints once its calls have succeeded; v is the value
\* the last call returned.
Output(c, v) ==
    CASE c.op \in {"domain-list", "domain-find"} -> << <<"json", v.domains>> >>
      [] c.op = "record-list" -> << <<"json", v.records>> >>
      [] c.op = "server-list" -> << <<"json", v.servers>> >>
      [] c.op = "server-images" -> << <<"json", v.images>> >>
      [] c.op = "server-types" -> << <<"json", v.types>> >>
      [] c.op = "domain-register" ->
            << <<"registration task started", v.task>>,
               <<"poll with: njalla domain check-task", v.task>> >>
      [] c.op = "domain-check-task" -> << <<"status", v.status>> >>
      [] c.op = "record-edit" -> << <<"record updated">> >>
      [] c.op = "record-remove" -> << <<"record removed", c.id>> >>
      [] OTHER -> << <<"json", v>> >>

\* A mutant of LoadDotenv: the file's value replaces one already set.
LoadDotenv_Override(env, file) == IF file # None THEN file ELSE env

\* dotenvy::dotenv() and dotenvy::from_path(): the file's value is set
\* unless the variable is already set.
LoadDotenv(env, file) == IF env = None THEN file ELSE env

\* NJALLA_API_TOKEN as from_env reads it: after ./.env, then, when HOME is
\* set, ~/.config/njalla/.env.
TokenFromEnv(env, cwdFile, homeSet, homeFile) ==
    LET e1 == LoadDotenv(env, cwdFile)
    IN  IF homeSet THEN LoadDotenv(e1, homeFile) ELSE e1

\* ------------------------------------------------------------ the inputs

\* The longest record list a list-records response holds.
MaxRecords == 2

\* Records the server may hold: two share the id r1, one has no id.
RecordPool ==
    { [id |-> Some("r1"), name |-> "www", record_type |-> "A",
       content |-> "1.1.1.1", ttl |-> 3600, priority |-> None],
      [id |-> Some("r2"), name |-> "mail", record_type |-> "MX",
       content |-> "mx.example.com", ttl |-> 300, priority |-> Some(10)],
      [id |-> None, name |-> "@", record_type |-> "TXT",
       content |-> "v=spf1", ttl |-> 900, priority |-> None],
      [id |-> Some("r1"), name |-> "old", record_type |-> "CNAME",
       content |-> "old.example.com", ttl |-> 600, priority |-> Some(20)] }

RecordLists == UNION {[1..n -> RecordPool] : n \in 0..MaxRecords}

RecordsJson(l) ==
    JO(<< <<"records", JA([i \in 1..Len(l) |-> ToValueRecord(l[i])])>> >>)

DomainJson ==
    JO(<< <<"name", JS("example.com")>>, <<"status", JS("active")>>,
          <<"expiry", JS("2026-01-01")>> >>)

MarketDomainJson ==
    JO(<< <<"name", JS("example.net")>>, <<"status", JS("available")>>,
          <<"price", JN(15)>> >>)

ServerJson ==
    JO(<< <<"name", JS("box")>>, <<"type", JS("njalla1")>>, <<"id", JS("s1")>>,
          <<"status", JS("running")>>, <<"os", JS("debian12")>>,
          <<"expiry", JS("2026-01-01")>>, <<"autorenew", JB(FALSE)>>,
          <<"ssh_key", JS("ssh-ed25519 AAAA")>>,
          <<"ips", JA(<< JS("192.0.2.1") >>)>>,
          <<"reverse_name", JS("box.example.com")>>,
          <<"os_state", JS("ok")>> >>)

\* The values a response may carry as its result.
ResultValues ==
    {RecordsJson(l) : l \in RecordLists}
    \cup {ToValueRecord(r) : r \in RecordPool}
    \cup { JS("ok"), JN(7), JO(<<>>),
           JO(<< <<"records", JA(<< JO(<< <<"name", JS("www")>>,
                                          <<"ttl", JS("soon")>> >>) >>)>> >>),
           JO(<< <<"task", JS("abc123")>> >>),
           JO(<< <<"status", JS("active")>> >>),
           DomainJson,
           JO(<< <<"domains", JA(<< DomainJson >>)>> >>),
           JO(<< <<"domains", JA(<< MarketDomainJson >>)>> >>),
           ServerJson,
           JO(<< <<"servers", JA(<< ServerJson >>)>> >>),
           JO(<< <<"images", JA(<< JS("debian12") >>)>> >>),
           JO(<< <<"types", JA(<< JS("njalla1") >>)>> >>) }

ErrorJson(code, message) ==
    JO(<< <<"code", JN(code)>>, <<"message", JS(message)>> >>)

\* The result member of a body: absent, null, or a value.
ResultMembers == {None, Some(JNull)} \cup {Some(v) : v \in ResultValues}

\* The error member of a body: absent, null, a well-formed error, or one
\* of the wrong shape.
ErrorMembers ==
    { None, Some(JNull), Some(ErrorJson(403, "forbidden")),
      Some(ErrorJson(-32601, "method not found")), Some(JS("boom")) }

EnvelopeJson(result, error) ==
    JO((IF result = None THEN <<>> ELSE << <<"result", result[1]>> >>)
       \o (IF error = None THEN <<>> ELSE << <<"error", error[1]>> >>))

\* The bodies a response may carry: None is a body that is not JSON.
Bodies ==
    {None, Some(JS("<html>")), Some(JA(<<>>))}
    \cup {Some(EnvelopeJson(r, e)) : r \in ResultMembers, e \in ErrorMembers}

Statuses == {200, 404, 500}

\* What the network hands back for one request.
Outcomes ==
    {[transport |-> "fail", status |-> 0, body |-> None]}
    \cup {[transport |-> "ok", status |-> st, body |-> b] :
             st \in Statuses, b \in Bodies}

OptionOf(S) == {None} \cup {Some(x) : x \in S}

EditCommands ==
    {[op |-> "record-edit", domain |-> "example.com", id |-> i, name |-> n,
      record_type |-> t, content |-> c, ttl |-> l, priority |-> p] :
        i \in {"r1", "r9"}, n \in OptionOf({"new"}), t \in OptionOf({"AAAA"}),
        c \in OptionOf({"2.2.2.2"}), l \in OptionOf({60}),
        p \in OptionOf({5})}
    \cup {[op |-> "record-edit", domain |-> "example.org", id |-> "r2",
           name |-> None, record_type |-> None, content |-> Some("2.2.2.2"),
           ttl |-> None, priority |-> None]}

BaseCommand == [op |-> "record-remove", domain |-> "example.com", id |-> "r1"]

\* The parsed command lines (Cli::parse).
Commands ==
    EditCommands
    \cup { BaseCommand,
           [op |-> "domain-list"],
           [op |-> "domain-get", domain |-> "example.com"],
           [op |-> "domain-find", query |-> "example"],
           [op |-> "domain-register", domain |-> "example.com", years |-> 2],
           [op |-> "domain-check-task", id |-> "abc123"],
           [op |-> "record-list", domain |-> "example.com"],
           [op |-> "record-add", domain |-> "example.com", name |-> "www",
            record_type |-> "A", content |-> "1.1.1.1", ttl |-> 3600,
            priority |-> None],
           [op |-> "server-list"],
           [op |-> "server-images"],
           [op |-> "server-types"],
           [op |-> "server-add", name |-> "box", server_type |-> "njalla1",
            os |-> "debian12", ssh_key |-> "ssh-ed25519 AAAA", months |-> 1],
           [op |-> "server-stop", id |-> "s1"],
           [op |-> "server-start", id |-> "s1"],
           [op |-> "server-restart", id |-> "s1"],
           [op |-> "server-reset", id |-> "s1", os |-> "debian12",
            ssh_key |-> "ssh-ed25519 AAAA", server_type |-> "njalla1"],
           [op |-> "server-remove", id |-> "s1"] }

\* Where the process starts: NJALLA_API_TOKEN in the environment, in
\* ./.env and in ~/.config/njalla/.env (each absent or set), whether HOME
\* is set, and whether the HTTP client can be built.
Environments ==
    [envTok : OptionOf({"tok-env"}), cwdFile : OptionOf({"tok-cwd"}),
     homeSet : BOOLEAN, homeFile : OptionOf({"tok-home"}), httpOk : BOOLEAN]

BaseEnvironment ==
    [envTok |-> Some("tok-env"), cwdFile |-> None, homeSet |-> TRUE,
     homeFile |-> None, httpOk |-> TRUE]

\* ------------------------------------------------------------ the process

VARIABLES
    pc,         \* where main is: start, ready, awaiting, returned, exited
    cmd,        \* the parsed command line
    envTok,     \* NJALLA_API_TOKEN in the process environment
    cwdFile,    \* NJALLA_API_TOKEN in the .env that dotenvy::dotenv() loads
    homeSet,    \* whether HOME is set
    homeFile,   \* NJALLA_API_TOKEN in ~/.config/njalla/.env
    httpOk,     \* whether Client::builder().build() succeeds
    auth,       \* NjallaClient.auth, once the client is built
    requests,   \* the HTTP requests sent, in order
    calls,      \* how many times NjallaClient::call was entered
    inflight,   \* the call entered last
    resp,       \* what the network handed back for it
    ret,        \* what it returned
    existing,   \* RecordCmd::Edit: the record found
    stdout,     \* the lines printed to standard output
    stderr,     \* the lines printed to standard error
    exitCode    \* the exit status, once the process has ended

vars == <<pc, cmd, envTok, cwdFile, homeSet, homeFile, httpOk, auth, requests,
          calls, inflight, resp, ret, existing, stdout, stderr, exitCode>>

world == <<cmd, cwdFile, homeSet, homeFile, httpOk>>

Init ==
    /\ \E c \in Commands, e \in Environments :
          /\ c = BaseCommand \/ e = BaseEnvironment
          /\ cmd = c
          /\ envTok = e.envTok
          /\ cwdFile = e.cwdFile
          /\ homeSet = e.homeSet
          /\ homeFile = e.homeFile
          /\ httpOk = e.httpOk
    /\ pc = "start"
    /\ auth = None
    /\ requests = <<>>
    /\ calls = 0
    /\ inflight = None
    /\ resp = None
    /\ ret = None
    /\ existing = None
    /\ stdout = <<>>
    /\ stderr = <<>>
    /\ exitCode = None

\* call up to its first await: the request is built and sent.
EnterCall(rpc) ==
    /\ requests' = SendRequest(requests,
                               HttpRequest(auth[1], rpc.method, rpc.params))
    /\ calls' = calls + 1
    /\ inflight' = Some(rpc)
    /\ resp' = None
    /\ ret' = None
    /\ pc' = "awaiting"

\* A mutant of ExitWith: the error is printed but the status is 0.
ExitWith_StatusZero(lines) ==
    /\ stderr' = stderr \o lines
    /\ exitCode' = Some(0)
    /\ pc' = "exited"

\* main: the error is printed and the process exits with status 1.
ExitWith(lines) ==
    /\ stderr' = stderr \o lines
    /\ exitCode' = Some(1)
    /\ pc' = "exited"

\* main: NjallaClient::from_env(), and the exit when it fails.
Main_FromEnv ==
    /\ pc = "start"
    /\ LET tok == TokenFromEnv(envTok, cwdFile, homeSet, homeFile)
           failed(e) ==
               /\ ExitWith(<< <<"failed to init client", e>>,
                              <<"set NJALLA_API_TOKEN in .env or environment">> >>)
               /\ auth' = auth
       IN  /\ envTok' = tok
           /\ IF tok = None THEN failed(EnvError)
              ELSE IF ~httpOk THEN failed(HttpError("builder"))
              ELSE /\ auth' = Some(AuthOf(tok[1]))
                   /\ pc' = "ready"
                   /\ UNCHANGED <<stderr, exitCode>>
    /\ UNCHANGED <<world, requests, calls, inflight, resp, ret, existing,
                   stdout>>

\* run: the subcommand's first call is entered.
Run_Dispatch ==
    /\ pc = "ready"
    /\ EnterCall(FirstRpc(cmd))
    /\ UNCHANGED <<world, envTok, auth, existing, stdout, stderr, exitCode>>

\* call, resumed with the outcome of its request, returns.
Call_Return ==
    /\ pc = "awaiting"
    /\ \E out \in Outcomes :
          /\ resp' = Some(out)
          /\ ret' = Some(IF inflight[1].void THEN ResolveVoid(out)
                         ELSE Resolve(out, inflight[1].T))
    /\ pc' = "returned"
    /\ UNCHANGED <<world, envTok, auth, requests, calls, inflight, existing,
                   stdout, stderr, exitCode>>

\* The list-records call of RecordCmd::Edit has returned its records.
EditListed ==
    /\ pc = "returned"
    /\ cmd.op = "record-edit"
    /\ inflight[1].method = "list-records"
    /\ ret[1].ok

\* `?` on a failed call: run returns the error, main prints it and exits.
Run_Error ==
    /\ pc = "returned"
    /\ ~ret[1].ok
    /\ ExitWith(<< <<"error", ret[1].err>> >>)
    /\ UNCHANGED <<world, envTok, auth, requests, calls, inflight, resp, ret,
                   existing, stdout>>

\* RecordCmd::Edit: no record has the id; NotFound is returned.
Edit_NotFound ==
    /\ EditListed
    /\ FindRecord(ret[1].val.records, cmd.id) = None
    /\ ExitWith(<< <<"error", NotFound(cmd.id, cmd.domain)>> >>)
    /\ UNCHANGED <<world, envTok, auth, requests, calls, inflight, resp, ret,
                   existing, stdout>>

\* RecordCmd::Edit: the record is found and patched, edit_record entered.
Edit_Patch ==
    /\ EditListed
    /\ LET found == FindRecord(ret[1].val.records, cmd.id)
       IN  /\ found # None
           /\ existing' = found
           /\ EnterCall(EditRecord(cmd.domain, Patched(cmd, found[1])))
    /\ UNCHANGED <<world, envTok, auth, stdout, stderr, exitCode>>

\* The subcommand's last call succeeded: the result is printed, run
\* returns Ok and main ends.
Run_Print ==
    /\ pc = "returned"
    /\ ret[1].ok
    /\ ~EditListed
    /\ stdout' = stdout \o Output(cmd, ret[1].val)
    /\ exitCode' = Some(0)
    /\ pc' = "exited"
    /\ UNCHANGED <<world, envTok, auth, requests, calls, inflight, resp, ret,
                   existing, stderr>>

Next ==
    \/ Main_FromEnv
    \/ Run_Dispatch
    \/ Call_Return
    \/ Run_Error
    \/ Edit_NotFound
    \/ Edit_Patch
    \/ Run_Print

Spec == Init /\ [][Next]_vars

\* ------------------------------------------------- the response, as sent

\* The call entered last has returned.
Returned == ret # None

\* Its response arrived with a success status.
ReceivedOk ==
    /\ Returned
    /\ resp[1].transport = "ok"
    /\ resp[1].status \in 200..299

\* The member of the response body under key, as sent.
BodyMember(key) == Get(resp[1].body[1], key)

\* A member is populated when it is present and not null.
Populated(m) == m # None /\ m[1].k # "null"

\* An error member of the envelope's shape: an object with an integer code
\* and a string message.
IsErrorObject(e) ==
    /\ e.k = "obj"
    /\ Get(e, "code") # None /\ Get(e, "code")[1].k = "num"
    /\ Get(e, "message") # None /\ Get(e, "message")[1].k = "str"

\* The body is a response envelope: a JSON object whose error member, when
\* populated, has the error's shape.
IsEnvelope ==
    /\ resp[1].body # None
    /\ resp[1].body[1].k = "obj"
    /\ Populated(BodyMember("error")) => IsErrorObject(BodyMember("error")[1])

\* ---------------------------------------------------------------- claims

\* C1: a received response envelope whose error member is populated makes
\* call fail with Error::Api carrying that code and message, whether or not
\* result is populated too and whatever the expected type; never a success.
C1_ErrorTakesPrecedence ==
    (ReceivedOk /\ IsEnvelope /\ Populated(BodyMember("error")))
    => LET e == BodyMember("error")[1]
       IN  /\ ~ret[1].ok
           /\ ret[1].err = [kind |-> "Api", code |-> Get(e, "code")[1].n,
                            message |-> Get(e, "message")[1].s]

\* C1 happens: both members populated, a typed result expected, and the
\* call failed with the envelope's error.
C1_Witness ==
    /\ ReceivedOk /\ IsEnvelope
    /\ Populated(BodyMember("error"))
    /\ Populated(BodyMember("result"))
    /\ Accepts(inflight[1].T, BodyMember("result")[1])
    /\ inflight[1].T = "RecordsResponse"
    /\ ret[1] = Err(ApiError(403, "forbidden"))

\* C2: a received response envelope with neither error nor result populated
\* makes call fail with Error::MissingResult, whatever the expected type.
C2_NeitherIsMissingResult ==
    (/\ ReceivedOk /\ IsEnvelope
     /\ ~Populated(BodyMember("error"))
     /\ ~Populated(BodyMember("result")))
    => ret[1] = [ok |-> FALSE, err |-> [kind |-> "MissingResult"]]

\* C2 happens: an empty envelope answered a call whose result is thrown
\* away, and the call failed with MissingResult.
C2_Witness ==
    /\ ReceivedOk /\ IsEnvelope
    /\ BodyMember("error") = None
    /\ BodyMember("result") = None
    /\ inflight[1].void
    /\ ret[1] = Err(MissingResult)
    /\ pc = "exited" /\ exitCode = Some(1)

\* C3: a received response envelope with only result populated makes call
\* succeed exactly when result deserializes into the expected type, with
\* the decoded value; otherwise it fails with Error::Json and nothing else.
C3_ResultDecodes ==
    (/\ ReceivedOk /\ IsEnvelope
     /\ ~Populated(BodyMember("error"))
     /\ Populated(BodyMember("result")))
    => LET v == BodyMember("result")[1]
           T == inflight[1].T
       IN  /\ ret[1].ok <=> Accepts(T, v)
           /\ ret[1].ok =>
                 ret[1].val = IF inflight[1].void THEN Unit ELSE Dec(T, v)
           /\ ~ret[1].ok => ret[1].err = [kind |-> "Json"]

\* C3 happens: a result of the wrong shape for the expected type, and the
\* call failed with Error::Json.
C3_Witness ==
    /\ ReceivedOk /\ IsEnvelope
    /\ BodyMember("error") = None
    /\ BodyMember("result") = Some(JO(<< <<"task", JS("abc123")>> >>))
    /\ inflight[1].T = "RecordsResponse"
    /\ ret[1] = Err(JsonError)

\* C4: a response received with a success status whose body is not a
\* well-formed response envelope makes call fail with Error::Json, not
\* with Error::Http.
C4_MalformedBodyIsJsonError ==
    (ReceivedOk /\ ~IsEnvelope) => ret[1] = [ok |-> FALSE, err |-> [kind |-> "Json"]]

\* C5: a response with an error-class status makes call fail with
\* Error::Http before the body is looked at, whatever the body holds; a
\* request that fails in transport fails with Error::Http too.
C5_StatusBeforeBody ==
    /\ (Returned /\ resp[1].transport = "ok" /\ resp[1].status \in 400..599)
       => /\ ~ret[1].ok
          /\ ret[1].err = [kind |-> "Http", cause |-> "status"]
    /\ (Returned /\ resp[1].transport # "ok")
       => /\ ~ret[1].ok
          /\ ret[1].err = [kind |-> "Http", cause |-> "send"]

\* C5 happens: a 500 response whose body is a well-formed envelope with a
\* populated error, and the call failed with Error::Http.
C5_Witness ==
    /\ Returned
    /\ resp[1].transport = "ok"
    /\ resp[1].status = 500
    /\ IsEnvelope
    /\ Populated(BodyMember("error"))
    /\ ret[1].err.kind = "Http"

\* The request has the JSON-RPC request envelope as its body.
IsRpcRequest(r, rpc) ==
    /\ r.verb = "POST"
    /\ r.body.k = "obj"
    /\ Len(r.body.members) = 4
    /\ Get(r.body, "jsonrpc") = Some(JS("2.0"))
    /\ Get(r.body, "id") # None /\ Get(r.body, "id")[1].k = "num"
    /\ Get(r.body, "method") = Some(JS(rpc.method))
    /\ Get(r.body, "params") = Some(rpc.params)

\* C6: every call sends exactly one POST, with the Authorization header made
\* from the token the client was built with and the request envelope as its
\* body; whatever the call returns, no further request is sent for it.
C6_OneRequestPerCall ==
    /\ Len(requests) = calls
    /\ \A i \in 1..Len(requests) :
          /\ requests[i].verb = "POST"
          /\ requests[i].authorization = "Njalla " \o envTok[1]
    /\ calls > 0 => IsRpcRequest(requests[calls], inflight[1])

\* C6 happens: the second call of a run failed in transport, and two
\* requests have been sent in all.
C6_Witness ==
    /\ calls = 2
    /\ Len(requests) = 2
    /\ Returned
    /\ resp[1].transport = "fail"
    /\ ~ret[1].ok
    /\ pc = "exited"

\* ---------------------------------------------- the record-edit flow

\* The subcommand is record edit.
IsEdit == cmd.op = "record-edit"

\* The list-records call of the edit flow has returned.
ListReturned ==
    /\ IsEdit
    /\ pc = "returned"
    /\ inflight[1].method = "list-records"

\* The position of the first record of list l with the id, 0 when none has.
FirstWithId(l, id) ==
    IF \E i \in 1..Len(l) : l[i].id = <<id>>
    THEN CHOOSE i \in 1..Len(l) :
            /\ l[i].id = <<id>>
            /\ \A j \in 1..(i - 1) : l[j].id # <<id>>
    ELSE 0

\* The params a request carries.
ParamsOf(r) == Get(r.body, "params")[1]

\* The method a request names.
MethodOf(r) == Get(r.body, "method")[1].s

\* Params p carry, under each key, the caller's value when given and the
\* record's otherwise; prio is left out when neither has one.
IsMergeOf(p, c, rec) ==
    /\ Get(p, "id") = Some(JS(c.id))
    /\ Get(p, "name") =
          Some(JS(IF c.name = None THEN rec.name ELSE c.name[1]))
    /\ Get(p, "type") =
          Some(JS(IF c.record_type = None THEN rec.record_type
                  ELSE c.record_type[1]))
    /\ Get(p, "content") =
          Some(JS(IF c.content = None THEN rec.content ELSE c.content[1]))
    /\ Get(p, "ttl") = Some(JN(IF c.ttl = None THEN rec.ttl ELSE c.ttl[1]))
    /\ Get(p, "prio") =
          (IF c.priority # None THEN Some(JN(c.priority[1]))
           ELSE IF rec.priority # None THEN Some(JN(rec.priority[1]))
           ELSE None)

\* C7: when the fetched list holds a record with the id, the edit-record
\* request that follows carries, for name, type, content, ttl and priority,
\* the caller's value where one was given and that record's otherwise, and
\* the requested id.
C7_EditPayloadMerges ==
    [][(/\ ListReturned
        /\ ret[1].ok
        /\ FirstWithId(ret[1].val.records, cmd.id) # 0)
       => LET l == ret[1].val.records
              rec == l[FirstWithId(l, cmd.id)]
          IN  /\ Len(requests') = Len(requests) + 1
              /\ MethodOf(requests'[Len(requests')]) = "edit-record"
              /\ IsMergeOf(ParamsOf(requests'[Len(requests')]), cmd, rec)]_vars

\* C7 happens: only content was given, and the edit-record request carries
\* it with the name, type, ttl and priority of the record found.
C7_Witness ==
    /\ IsEdit
    /\ cmd.content = Some("2.2.2.2")
    /\ cmd.name = None /\ cmd.record_type = None
    /\ cmd.ttl = None /\ cmd.priority = None
    /\ Len(requests) = 2
    /\ MethodOf(requests[2]) = "edit-record"
    /\ existing # None
    /\ Get(ParamsOf(requests[2]), "content") = Some(JS("2.2.2.2"))
    /\ Get(ParamsOf(requests[2]), "name") = Some(JS("old"))
    /\ Get(ParamsOf(requests[2]), "type") = Some(JS("CNAME"))
    /\ Get(ParamsOf(requests[2]), "ttl") = Some(JN(600))
    /\ Get(ParamsOf(requests[2]), "prio") = Some(JN(20))

\* The edit flow has ended on a fetched list that holds no record with the
\* id.
EndedOnAbsentId ==
    /\ IsEdit
    /\ pc = "exited"
    /\ inflight[1].method = "list-records"
    /\ ret[1].ok
    /\ FirstWithId(ret[1].val.records, cmd.id) = 0

\* C8 as stated: when the id is absent from the domain's record list, the
\* edit fails with NotFound and no HTTP request is issued.
C8_NotFoundWithoutAnyRequest ==
    EndedOnAbsentId
    => /\ stderr = << <<"error", [kind |-> "NotFound", id |-> cmd.id,
                                  domain |-> cmd.domain]>> >>
       /\ requests = <<>>

\* C8, amended: when list-records succeeded and the id is absent from the
\* list it returned, the edit fails with NotFound and exit status 1, and the
\* list-records request stays the only request sent: no edit-record request
\* is issued.
C8_NotFoundWithoutEditRequest ==
    [][(/\ ListReturned
        /\ ret[1].ok
        /\ FirstWithId(ret[1].val.records, cmd.id) = 0)
       => /\ pc' = "exited"
          /\ exitCode' = Some(1)
          /\ stderr' = << <<"error", [kind |-> "NotFound", id |-> cmd.id,
                                      domain |-> cmd.domain]>> >>
          /\ stdout' = <<>>
          /\ requests' = requests
          /\ Len(requests) = 1
          /\ MethodOf(requests[1]) = "list-records"]_vars

\* C8 happens: the list held records, none with the id, and the flow ended
\* with NotFound after its one request.
C8_Witness ==
    /\ EndedOnAbsentId
    /\ Len(ret[1].val.records) > 0
    /\ stderr = << <<"error", NotFound(cmd.id, cmd.domain)>> >>
    /\ Len(requests) = 1

\* C9: the edit flow reads before it writes.  An edit-record request is
\* sent only by a step taken when list-records has succeeded and its list
\* holds a record with the id; a failed list-records or a list without the
\* id ends the flow with no further request; and the requests of the flow
\* are at most one list-records followed by at most one edit-record, both
\* for the domain given.
C9_ReadBeforeWrite ==
    [][IsEdit =>
        /\ (Len(requests') > Len(requests)
            /\ MethodOf(requests'[Len(requests')]) = "edit-record")
           => /\ ListReturned
              /\ ret[1].ok
              /\ FirstWithId(ret[1].val.records, cmd.id) # 0
              /\ Get(inflight[1].params, "domain") = Some(JS(cmd.domain))
        /\ (ListReturned
            /\ (~ret[1].ok \/ FirstWithId(ret[1].val.records, cmd.id) = 0))
           => /\ requests' = requests
              /\ pc' = "exited"
        /\ Len(requests') <= 2
        /\ \A i \in 1..Len(requests') :
              /\ MethodOf(requests'[i]) =
                    (IF i = 1 THEN "list-records" ELSE "edit-record")
              /\ Get(ParamsOf(requests'[i]), "domain") = Some(JS(cmd.domain))
      ]_vars

\* C9 happens: the flow has sent list-records and then edit-record.
C9_Witness ==
    /\ IsEdit
    /\ Len(requests) = 2
    /\ MethodOf(requests[1]) = "list-records"
    /\ MethodOf(requests[2]) = "edit-record"
    /\ Get(ParamsOf(requests[2]), "domain") = Some(JS("example.org"))
    /\ pc = "exited" /\ exitCode = Some(0)

\* ------------------------------------------------------------- from_env

\* The token the lookup order names: the environment's, else the one of
\* ./.env, else the one of ~/.config/njalla/.env (there is none without
\* HOME).
FirstMatch ==
    IF envTok # None THEN envTok
    ELSE IF cwdFile # None THEN cwdFile
    ELSE IF homeSet /\ homeFile # None THEN homeFile
    ELSE None

\* C10: from_env takes the token of the first source that has one, in the
\* order environment, ./.env, ~/.config/njalla/.env; with none, it fails
\* with Error::Env and the process exits with no call made; no request is
\* ever sent without a client, and no call fails with Error::Env.
C10_TokenLookupOrder ==
    [][/\ pc = "start" =>
            /\ FirstMatch = None =>
                  /\ pc' = "exited"
                  /\ exitCode' = Some(1)
                  /\ Len(stderr') > 0
                  /\ stderr'[1] = <<"failed to init client", [kind |-> "Env"]>>
                  /\ auth' = None
                  /\ calls' = 0 /\ requests' = <<>>
            /\ FirstMatch # None =>
                  /\ httpOk => pc' = "ready"
                  /\ pc' = "ready" => auth' = Some("Njalla " \o FirstMatch[1])
       /\ calls' > 0 => auth' # None
       /\ (ret' # None /\ ~ret'[1].ok) => ret'[1].err.kind # "Env"]_vars

\* C10 happens: the environment and both files held a token, and the
\* client was built with the environment's.
C10_Witness ==
    /\ pc = "ready"
    /\ cwdFile = Some("tok-cwd")
    /\ homeSet /\ homeFile = Some("tok-home")
    /\ auth = Some("Njalla tok-env")

\* ------------------------------------------------------- the CLI's failures

\* The client cannot be built: no source has a token, or the HTTP client
\* fails to initialise.
InitFails == pc = "start" /\ (FirstMatch = None \/ ~httpOk)

\* A call of the subcommand has returned an error.
CallFailed == pc = "returned" /\ ~ret[1].ok

\* The edit flow's list holds no record with the id.
LookupFails ==
    /\ ListReturned
    /\ ret[1].ok
    /\ FirstWithId(ret[1].val.records, cmd.id) = 0

\* The process has ended in failure.
EndedInFailure == pc = "exited" /\ exitCode # Some(0)

\* C11 as stated: every failure of the CLI, client initialisation included,
\* prints a single line to standard error, ends with a non-zero status and
\* prints nothing to standard output.
C11_SingleDiagnosticLine ==
    EndedInFailure
    => /\ Len(stderr) = 1
       /\ exitCode # None /\ exitCode[1] # 0
       /\ stdout = <<>>

\* C11, amended: every failure ends the process with status 1 and nothing on
\* standard output.  An error returned by a subcommand prints exactly one
\* line to standard error, "error: <the error>"; a client initialisation
\* failure prints two, "failed to init client: <the error>" and then the
\* hint on setting NJALLA_API_TOKEN.  Nothing is printed to standard output
\* by a run that does not end with status 0.
C11_FailureDiagnostics ==
    [][/\ (InitFails \/ CallFailed \/ LookupFails)
          => /\ pc' = "exited"
             /\ exitCode' = Some(1)
             /\ stdout' = <<>>
       /\ InitFails
          => /\ Len(stderr') = 2
             /\ stderr'[1][1] = "failed to init client"
             /\ stderr'[1][2].kind = (IF FirstMatch = None THEN "Env" ELSE "Http")
             /\ stderr'[2] = <<"set NJALLA_API_TOKEN in .env or environment">>
       /\ CallFailed => stderr' = << <<"error", ret[1].err>> >>
       /\ LookupFails
          => /\ Len(stderr') = 1
             /\ stderr'[1][1] = "error"
             /\ stderr'[1][2].kind = "NotFound"
       /\ stdout' # <<>> => exitCode' = Some(0)
       /\ (stderr' # <<>> \/ (exitCode' # None /\ exitCode' # Some(0)))
          => (InitFails \/ CallFailed \/ LookupFails)]_vars

\* C11 happens: the second call of an edit failed with an API error, and
\* the process ended with status 1, one line on standard error and nothing
\* on standard output.
C11_Witness ==
    /\ EndedInFailure
    /\ IsEdit
    /\ calls = 2
    /\ ret[1] = Err(ApiError(403, "forbidden"))
    /\ stderr = << <<"error", ApiError(403, "forbidden")>> >>
    /\ exitCode = Some(1)
    /\ stdout = <<>>

\* ------------------------------------------------------------ call_void

\* The call that has returned went through call_void.
VoidReturned == Returned /\ inflight[1].void

\* C12: call_void resolves a response as call does with a generic JSON
\* result type: it fails with exactly the error call::<Value> returns for
\* that response, MissingResult for an unpopulated result included, and it
\* succeeds, with unit, exactly when call::<Value> succeeds, which is for
\* every shape of a populated result.
C12_CallVoidResolvesAsCall ==
    VoidReturned
    => LET viaCall == Resolve(resp[1], "Value")
       IN  /\ ret[1].ok <=> viaCall.ok
           /\ ~ret[1].ok => ret[1] = viaCall
           /\ ret[1].ok => ret[1].val = [k |-> "unit"]
           /\ (/\ ReceivedOk /\ IsEnvelope
               /\ ~Populated(BodyMember("error")))
              => IF Populated(BodyMember("result")) THEN ret[1].ok
                 ELSE ret[1] = [ok |-> FALSE, err |-> [kind |-> "MissingResult"]]

\* C12 happens: edit-record was answered with a bare number as its result,
\* call_void returned unit and the edit was reported done.
C12_Witness ==
    /\ VoidReturned
    /\ inflight[1].method = "edit-record"
    /\ ReceivedOk /\ IsEnvelope
    /\ BodyMember("error") = None
    /\ BodyMember("result") = Some(JN(7))
    /\ ret[1] = Ok(Unit)
    /\ stdout = << <<"record updated">> >>

====
